---- MODULE Spec2Model ----
(***************************************************************************)
(* The incremental review-collection and caching engine of app.py:        *)
(* TEMP_REVIEW_CACHE with its two key formats, _purge_cache, the top-up   *)
(* loop of /analyze against the Steam review pages, and the read-only     *)
(* /reviews and /export handlers.                                          *)
(*                                                                         *)
(* Strings that take part in cache keys are sequences of tokens, the       *)
(* pieces between "_" characters, so that str.format of a key is the       *)
(* concatenation of its fields' tokens and two keys are equal exactly when *)
(* the formatted strings are.  The empty string is <<>>.                   *)
(*                                                                         *)
(* The sizes of the program (page size, count cap, cache size, TTL) are    *)
(* scaled down; each keeps the name of the constant it scales.             *)
(***************************************************************************)
EXTENDS Integers, Sequences, FiniteSets, TLC

VARIABLES
    cache,   \* TEMP_REVIEW_CACHE: sequence of [k, e] in dict insertion order
    heap,    \* the entry dicts the cache (or a running request) refers to, by id
    now,     \* the clock read by _now()
    up,      \* the upstream review source of this run (a deterministic stub)
    resp,    \* the last response returned, with what the request did
    procs,   \* the /analyze requests in flight (threaded server)
    call     \* the last call of one of the two analysis functions on its own

vars == <<cache, heap, now, up, resp, procs, call>>

-----------------------------------------------------------------------------
\* Sizes.  (app.py: 100, 5000, 1, 50, 30 * 60)
STEAM_REVIEWS_PER_PAGE == 2
MAX_REVIEW_COUNT == 3
MIN_REVIEW_COUNT == 1
CACHE_MAX_ITEMS == 3
CACHE_TTL_SECONDS == 2
PAGE_LIMIT_MAX == 2     \* the 200 of line 821

\* Bounds of the exploration.
MaxTime == 3      \* the clock runs 0..MaxTime
MaxSrc == 3       \* the upstream holds at most MaxSrc reviews
MaxReq == 3       \* requests (sequential) handled in one behaviour

NoneInt == -1           \* Python None where an int is expected
NoCursor == "None"      \* Python None as a cursor
StartCursor == "*"

Min(a, b) == IF a <= b THEN a ELSE b
Max(a, b) == IF a >= b THEN a ELSE b
Range(s) == {s[i] : i \in 1..Len(s)}

_clamp(n, lo, hi) == Max(lo, Min(hi, n))

-----------------------------------------------------------------------------
\* Request parsing

\* str(x or "").strip(): a missing field and a blank one both give "".
Strip(raw) == IF raw = <<" ">> THEN <<>> ELSE raw

\* filter: strip().lower(), anything outside the three modes becomes "recent"
NormFilter(raw) == IF raw \in {"recent", "updated", "all"} THEN raw ELSE "recent"

\* language: strip().lower() or "english"
NormLanguage(raw) == IF Strip(raw) = <<>> THEN <<"english">> ELSE Strip(raw)

-----------------------------------------------------------------------------
\* Cache keys

\* "{:d}".format of a count, as one token
DecStr(n) == <<"0", "1", "2", "3", "4", "5", "6", "7", "8", "9", "10">>[n + 1]

\* CACHE_KEY_V2 = "{app_id}_{review_filter}_{language}"
CACHE_KEY_V2(app_id, review_filter, language) ==
    app_id \o <<review_filter>> \o language

\* CACHE_KEY_V1 = "{app_id}_{review_count}_{review_filter}_{language}"
CACHE_KEY_V1(app_id, review_count, review_filter, language) ==
    app_id \o <<DecStr(review_count)>> \o <<review_filter>> \o language

NoKey == <<>>

\* _make_keys: <<v2_key, v1_key or NoKey>>
_make_keys(app_id, review_filter, language, review_count) ==
    <<CACHE_KEY_V2(app_id, review_filter, language),
      IF review_count # NoneInt
      THEN CACHE_KEY_V1(app_id, review_count, review_filter, language)
      ELSE NoKey>>

-----------------------------------------------------------------------------
\* The dict TEMP_REVIEW_CACHE, in insertion order

CacheKeys(c) == {c[i].k : i \in 1..Len(c)}

CacheHas(c, k) == k \in CacheKeys(c)

\* dict.get: the entry id under k, NoneInt when absent
CacheGet(c, k) ==
    IF CacheHas(c, k)
    THEN c[CHOOSE i \in 1..Len(c) : c[i].k = k].e
    ELSE NoneInt

\* d[k] = e: an existing key keeps its place, a new one goes last
CachePut(c, k, e) ==
    IF CacheHas(c, k)
    THEN [i \in 1..Len(c) |-> IF c[i].k = k THEN [k |-> k, e |-> e] ELSE c[i]]
    ELSE Append(c, [k |-> k, e |-> e])

\* the subsequence of c at the positions in keep
RECURSIVE Filter(_, _, _)
Filter(c, keep, i) ==
    IF i > Len(c) THEN <<>>
    ELSE (IF i \in keep THEN <<c[i]>> ELSE <<>>) \o Filter(c, keep, i + 1)

\* (variant: an entry lives one second longer than the TTL)
ExpiredLate(created_at, t) == (t - created_at) > CACHE_TTL_SECONDS + 1

Expired(created_at, t) == (t - created_at) > CACHE_TTL_SECONDS

\* lines 156-163: drop every key whose entry is older than the TTL
PurgeExpired(c, h, t) ==
    Filter(c, {i \in 1..Len(c) : ~Expired(h[c[i].e].created_at, t)}, 1)

\* lines 165-170: list.sort is stable, so among equal created_at the dict order
\* decides; the first to_remove of the sorted list are popped
SortRank(c, h, i) ==
    Cardinality({j \in 1..Len(c) :
        \/ h[c[j].e].created_at < h[c[i].e].created_at
        \/ (h[c[j].e].created_at = h[c[i].e].created_at /\ j < i)})

\* (variant: the sort is by newest first)
EvictNewest(c, h) ==
    IF Len(c) > CACHE_MAX_ITEMS
    THEN LET to_remove == Len(c) - CACHE_MAX_ITEMS
         IN  Filter(c, {i \in 1..Len(c) : SortRank(c, h, i) < Len(c) - to_remove}, 1)
    ELSE c

EvictOldest(c, h) ==
    IF Len(c) > CACHE_MAX_ITEMS
    THEN LET to_remove == Len(c) - CACHE_MAX_ITEMS
         IN  Filter(c, {i \in 1..Len(c) : SortRank(c, h, i) >= to_remove}, 1)
    ELSE c

_purge_cache(c, h, t) == EvictOldest(PurgeExpired(c, h, t), h)

\* _get_cached_entry: v2 key first, then the v1 key of the hint
_get_cached_entry(c, app_id, review_filter, language, review_count_hint) ==
    LET ks == _make_keys(app_id, review_filter, language, review_count_hint)
    IN  IF CacheHas(c, ks[1]) THEN CacheGet(c, ks[1])
        ELSE IF ks[2] # NoKey /\ CacheHas(c, ks[2]) THEN CacheGet(c, ks[2])
        ELSE NoneInt

\* (variant: only the two legacy keys are written)
StoreLegacyOnly(c, e, app_id, review_filter, language, requested_count, effective_count) ==
    LET k1_req == _make_keys(app_id, review_filter, language, requested_count)[2]
        k1_eff == _make_keys(app_id, review_filter, language, effective_count)[2]
    IN  CachePut(CachePut(c, k1_req, e), k1_eff, e)

\* _store_entry_under_keys: the same entry under v2, v1(requested), v1(effective)
_store_entry_under_keys(c, e, app_id, review_filter, language, requested_count, effective_count) ==
    LET k2     == _make_keys(app_id, review_filter, language, requested_count)[1]
        k1_req == _make_keys(app_id, review_filter, language, requested_count)[2]
        k1_eff == _make_keys(app_id, review_filter, language, effective_count)[2]
    IN  CachePut(CachePut(CachePut(c, k2, e), k1_req, e), k1_eff, e)

-----------------------------------------------------------------------------
\* The upstream review source: a stub holding the reviews 1..up.len of every
\* app, served STEAM_REVIEWS_PER_PAGE at a time.  A review is its index in the
\* upstream list.  up.total is query_summary.total_reviews as the stub reports
\* it (NoneInt: not reported); up.endCursor is what it sends as the cursor of
\* a page with nothing after it.

PageCursors == <<"c1", "c2", "c3", "c4", "c5", "c6", "c7", "c8", "c9", "c10", "c11", "c12">>

CursorAt(off) == IF off = 0 THEN StartCursor ELSE PageCursors[off]

OffsetOf(cur) ==
    IF cur = StartCursor THEN 0
    ELSE CHOOSE i \in 1..Len(PageCursors) : PageCursors[i] = cur

EndCursors == {"next", NoCursor, "", "0"}

UpPage(u, cur) ==
    LET off == OffsetOf(cur)
        k   == Max(0, Min(STEAM_REVIEWS_PER_PAGE, u.len - off))
    IN  [success |-> 1,
         total   |-> u.total,
         reviews |-> [i \in 1..k |-> off + i],
         cursor  |-> IF u.endCursor = "same" THEN cur
                     ELSE IF off + STEAM_REVIEWS_PER_PAGE < u.len \/ u.endCursor = "next"
                     THEN CursorAt(off + STEAM_REVIEWS_PER_PAGE)
                     ELSE u.endCursor]

\* the stub's review texts: the even reviews carry a time keyword
HasThemeTags(r) == r % 2 = 0

\* lines 576-577, 586: playtime_hours of the record made of review r, in tenths
\* of an hour (the code rounds to one decimal); u.hours lists the playtimes
\* the stub reports, a review beyond the list has none (0)
PlaytimeOf(u, r) == IF r \in 1..Len(u.hours) THEN u.hours[r] ELSE 0

PlaytimesOf(u, rs) == [i \in 1..Len(rs) |-> PlaytimeOf(u, rs[i])]

\* What goes wrong with one page request of a top-up.  The first three make
\* _steam_get_with_retry return None (every attempt throttled; a
\* RequestException on every attempt; a body that is not JSON), the last is a
\* parsed body whose "success" is not 1.
FailKinds == {"throttled", "neterr", "badjson", "nosuccess"}

NoPayload == [success |-> 0, total |-> NoneInt, reviews |-> <<>>, cursor |-> NoCursor]

STEAM_RETRY_MAX == 4

\* What one HTTP attempt meets: a body that parses, a throttling status, a
\* requests.RequestException before any answer, another error status (which
\* raise_for_status turns into a RequestException), a body that is not JSON
Answers == {"ok", "429", "503", "neterr", "http500", "badjson"}

\* (variant: the wait grows by one second)
NextBackoffPlusOne(backoff) == Min(backoff + 1, 12)

\* lines 316, 329
NextBackoff(backoff) == Min(backoff * 2, 12)

\* line 308 and the loop variable: _steam_get_with_retry about to make its
\* first attempt.  sent: the params of the requests sent; answers: what the
\* attempts met; slept: the seconds waited after each attempt (0: none);
\* done: the call has returned, isNone: it returned None
RetryStart(params) ==
    [attempt |-> 1, backoff |-> 1, sent |-> <<>>, answers |-> <<>>, slept |-> <<>>,
     done |-> FALSE, isNone |-> TRUE]

\* lines 309-331: one pass of the for loop, the attempt meeting `answer`
RetryAttempt(st, params, answer) ==
    LET st1 == [st EXCEPT !.sent = Append(@, params), !.answers = Append(@, answer)]
    IN  IF answer = "ok"
        THEN [st1 EXCEPT !.slept = Append(@, 0), !.done = TRUE, !.isNone = FALSE]
        ELSE IF answer = "badjson"
        THEN [st1 EXCEPT !.slept = Append(@, 0), !.done = TRUE, !.isNone = TRUE]
        ELSE [st1 EXCEPT !.slept = Append(@, st.backoff),
                         !.backoff = NextBackoff(st.backoff),
                         !.attempt = @ + 1,
                         !.done = st.attempt + 1 > STEAM_RETRY_MAX,
                         !.isNone = TRUE]

RECURSIVE RunRetry(_, _, _)
RunRetry(st, params, answers) ==
    IF st.done \/ answers = <<>> THEN st
    ELSE RunRetry(RetryAttempt(st, params, Head(answers)), params, Tail(answers))

\* _steam_get_with_retry, the attempts meeting `answers` one after the other
_steam_get_with_retry(params, answers) == RunRetry(RetryStart(params), params, answers)

\* what the attempts of a page request meet under each kind of failure
AnswersOf(kind) ==
    IF kind = "throttled" THEN [i \in 1..STEAM_RETRY_MAX |-> "429"]
    ELSE IF kind = "neterr" THEN [i \in 1..STEAM_RETRY_MAX |-> "neterr"]
    ELSE IF kind = "badjson" THEN <<"badjson">>
    ELSE <<"ok">>

\* line 551: the payload of the page request number `page` of this top-up under
\* the failure plan; isNone is "payload is None", sent the number of HTTP
\* requests the call made
FetchPage(u, plan, page, cur) ==
    LET kind == IF plan.failAt = page THEN plan.kind ELSE "none"
        payload == _steam_get_with_retry(cur, AnswersOf(kind))
    IN  [isNone |-> payload.isNone,
         sent |-> Len(payload.sent),
         body |-> IF payload.isNone \/ kind = "nosuccess" THEN NoPayload ELSE UpPage(u, cur)]

\* _safe_total_reviews_from_payload
_safe_total_reviews_from_payload(body) ==
    IF body.total = NoneInt \/ body.total < 0 THEN NoneInt ELSE body.total

\* _cursor_ok
_cursor_ok(c) == c # NoCursor /\ c # "" /\ c # "0"

-----------------------------------------------------------------------------
\* /analyze, lines 494-605: the entry and the top-up loop

\* lines 495-504
NewEntry(t, review_count_req) ==
    [created_at |-> t,
     cursor |-> StartCursor,
     all_reviews |-> <<>>,
     steam_total_reviews |-> NoneInt,
     effective_target_count |-> review_count_req]

\* lines 524, 564
PagesNeeded(need) ==
    (need \div STEAM_REVIEWS_PER_PAGE) + (IF need % STEAM_REVIEWS_PER_PAGE # 0 THEN 1 ELSE 0)

\* (variant: the source total is not taken into the target)
TargetIgnoringTotal(review_count_req, total) ==
    _clamp(review_count_req, MIN_REVIEW_COUNT, MAX_REVIEW_COUNT)

\* lines 516, 560
TargetFor(review_count_req, total) ==
    _clamp(Min(review_count_req, total), MIN_REVIEW_COUNT, MAX_REVIEW_COUNT)

\* lines 506-537: the request's locals and the entry after line 519.
\* x.loc are the locals, x.e the entry dict (all_reviews is the entry's own list)
Prologue(e, review_count_req) ==
    LET cursor == IF e.cursor = NoCursor \/ e.cursor = "" THEN StartCursor ELSE e.cursor
        target_count == IF e.steam_total_reviews >= 0
                        THEN TargetFor(review_count_req, e.steam_total_reviews)
                        ELSE review_count_req
        need == Max(0, target_count - Len(e.all_reviews))
    IN  [loc |-> [cursor |-> cursor,
                  pcursor |-> cursor,
                  target_count |-> target_count,
                  pages_needed |-> PagesNeeded(need),
                  pages_fetched |-> 0,
                  seen_cursors |-> {},
                  first_page_seen |-> FALSE,
                  topup |-> need > 0 /\ _cursor_ok(cursor),
                  fetches |-> <<>>,
                  attempts |-> <<>>,
                  failed |-> FALSE,
                  brk |-> FALSE],
         e |-> [e EXCEPT !.effective_target_count = target_count]]

\* (variant: the loop does not count its pages)
LoopCondNoPageBudget(x) ==
    /\ ~x.loc.brk
    /\ Len(x.e.all_reviews) < x.loc.target_count
    /\ _cursor_ok(x.loc.pcursor)

\* lines 539-543
LoopCond(x) ==
    /\ ~x.loc.brk
    /\ x.loc.pages_fetched < x.loc.pages_needed
    /\ Len(x.e.all_reviews) < x.loc.target_count
    /\ _cursor_ok(x.loc.pcursor)

\* (variant: the whole page is appended, whatever the target)
AppendReviewsPastTarget(all_reviews, reviews_on_page, target_count) ==
    all_reviews \o reviews_on_page

\* (variant: the page's reviews are put in front of the list)
AppendReviewsInFront(all_reviews, reviews_on_page, target_count) ==
    SubSeq(reviews_on_page, 1,
           Min(Len(reviews_on_page), Max(0, target_count - Len(all_reviews)))) \o all_reviews

\* lines 572-591: append the page's reviews while the target is unmet
AppendReviews(all_reviews, reviews_on_page, target_count) ==
    all_reviews \o SubSeq(reviews_on_page, 1,
                          Min(Len(reviews_on_page), Max(0, target_count - Len(all_reviews))))

\* lines 547-549: the cursor is new, the page request goes out
LoopSend(loc) ==
    [loc EXCEPT !.seen_cursors = @ \cup {loc.pcursor},
                !.pages_fetched = @ + 1,
                !.fetches = Append(@, loc.pcursor)]

\* lines 551-595: the answer to the page request is handled
LoopRecv(x, u, plan, review_count_req) ==
    LET loc == x.loc
        e   == x.e
        payload == FetchPage(u, plan, loc.pages_fetched, loc.pcursor)
    IN
    IF payload.isNone \/ payload.body.success # 1
    THEN [loc |-> [loc EXCEPT !.brk = TRUE, !.failed = TRUE,
                              !.attempts = Append(@, payload.sent)], e |-> e]
    ELSE
    LET body == payload.body
        total_reviews == _safe_total_reviews_from_payload(body)
        newTotal == ~loc.first_page_seen /\ total_reviews # NoneInt
        target_count == IF newTotal THEN TargetFor(review_count_req, total_reviews)
                        ELSE loc.target_count
        e1 == IF newTotal
              THEN [e EXCEPT !.steam_total_reviews = total_reviews,
                             !.effective_target_count = target_count]
              ELSE e
        loc2 == [loc EXCEPT !.first_page_seen = TRUE,
                            !.attempts = Append(@, payload.sent),
                            !.target_count = target_count,
                            !.pages_needed =
                                IF newTotal
                                THEN PagesNeeded(Max(0, target_count - Len(e.all_reviews)))
                                ELSE @]
    IN
    IF body.reviews = <<>>
    THEN [loc |-> [loc2 EXCEPT !.pcursor = NoCursor, !.brk = TRUE], e |-> e1]
    ELSE
    LET new_cursor == IF _cursor_ok(body.cursor) THEN body.cursor ELSE NoCursor
    IN  [loc |-> [loc2 EXCEPT !.pcursor = new_cursor, !.cursor = new_cursor],
         e |-> [e1 EXCEPT !.all_reviews = AppendReviews(@, body.reviews, target_count)]]

\* lines 544-597: one pass of the while loop
LoopIter(x, u, plan, review_count_req) ==
    IF x.loc.pcursor \in x.loc.seen_cursors
    THEN [x EXCEPT !.loc.brk = TRUE]
    ELSE LoopRecv([x EXCEPT !.loc = LoopSend(@)], u, plan, review_count_req)

RECURSIVE RunLoop(_, _, _, _)
RunLoop(x, u, plan, review_count_req) ==
    IF LoopCond(x)
    THEN RunLoop(LoopIter(x, u, plan, review_count_req), u, plan, review_count_req)
    ELSE x

\* lines 599-605, after the loop of a top-up
Epilogue(x, t) ==
    LET e1 == [x.e EXCEPT !.cursor = x.loc.cursor, !.created_at = t]
    IN  [x EXCEPT !.e =
            IF e1.steam_total_reviews = NoneInt /\ ~_cursor_ok(x.loc.cursor)
            THEN [e1 EXCEPT !.steam_total_reviews = Len(e1.all_reviews)]
            ELSE e1]

\* lines 521-605
TopUp(e, u, plan, review_count_req, t) ==
    LET x0 == Prologue(e, review_count_req)
    IN  IF x0.loc.topup
        THEN Epilogue(RunLoop(x0, u, plan, review_count_req), t)
        ELSE x0

-----------------------------------------------------------------------------
\* The heap of entry dicts

NoHeap == [i \in {} |-> NoneInt]

\* a new dict: an id no live object has
FreshId(h) == CHOOSE i \in 1..(Cardinality(DOMAIN h) + 1) : i \notin DOMAIN h

CacheRefs(c) == {c[i].e : i \in 1..Len(c)}

\* objects nothing refers to any more are gone
Collect(h, live) == [i \in (DOMAIN h) \cap live |-> h[i]]

-----------------------------------------------------------------------------
\* Requests and responses

Apps == {<<"7">>, <<"8">>}

Counts == MIN_REVIEW_COUNT..MAX_REVIEW_COUNT

\* Bodies of POST /analyze: one app with every count in range, the other with
\* the least and the greatest count, and one request for each way a field is
\* missing or out of range.
OddAnalyzeRequests ==
    {[app_id |-> <<>>, review_count |-> 1, filter |-> "recent", language |-> <<>>],
     [app_id |-> <<" ">>, review_count |-> 1, filter |-> "recent", language |-> <<>>],
     [app_id |-> <<"7">>, review_count |-> 0, filter |-> "recent", language |-> <<>>],
     [app_id |-> <<"7">>, review_count |-> MAX_REVIEW_COUNT + 1, filter |-> "bogus",
      language |-> <<" ">>]}

AnalyzeRequests ==
    [app_id : {<<"7">>}, review_count : Counts, filter : {"recent"}, language : {<<>>}]
    \cup [app_id : {<<"8">>}, review_count : {MIN_REVIEW_COUNT, MAX_REVIEW_COUNT},
          filter : {"recent"}, language : {<<>>}]
    \cup OddAnalyzeRequests

\* Bodies of POST /analyze for one app
TopUpRequests ==
    [app_id : {<<"7">>}, review_count : Counts, filter : {"recent"}, language : {<<>>}]

\* Query strings of GET /reviews and GET /export: one app with every kind of
\* count hint, the other with none, a missing app_id, an unknown filter; the
\* paging and selection parameters are left at their defaults
Hints == {NoneInt, 0, MIN_REVIEW_COUNT, MAX_REVIEW_COUNT}
DefaultPaging == [offset : {0}, limit : {PAGE_LIMIT_MAX}, themed_only : {TRUE},
                  fallback_to_all_if_none : {TRUE}]
ReadSubjects ==
    [app_id : {<<"7">>}, total_count : Hints, filter : {"recent"}, language : {<<>>}]
    \cup {[app_id |-> <<"8">>, total_count |-> NoneInt, filter |-> "recent", language |-> <<>>],
          [app_id |-> <<>>, total_count |-> NoneInt, filter |-> "recent", language |-> <<>>],
          [app_id |-> <<"7">>, total_count |-> NoneInt, filter |-> "bogus", language |-> <<" ">>]}
WithPaging(subject, paging) ==
    [app_id |-> subject.app_id, total_count |-> subject.total_count,
     filter |-> subject.filter, language |-> subject.language,
     offset |-> paging.offset, limit |-> paging.limit,
     themed_only |-> paging.themed_only,
     fallback_to_all_if_none |-> paging.fallback_to_all_if_none]
ReadRequests == {WithPaging(s, g) : s \in ReadSubjects, g \in DefaultPaging}

\* Failure plans of one top-up: none, or the page request number failAt failing
NoFail == [failAt |-> 0, kind |-> "none"]
Plans == {NoFail,
          [failAt |-> 1, kind |-> "throttled"], [failAt |-> 1, kind |-> "nosuccess"],
          [failAt |-> 2, kind |-> "neterr"], [failAt |-> 2, kind |-> "badjson"]}

\* The stubs: any length, any reported total, any end-of-list cursor
Upstreams == [len : 0..MaxSrc, total : {NoneInt} \cup 0..(MaxSrc + 1), endCursor : EndCursors,
              hours : {<<>>}]

\* Two stubs for the runs that are about the cache: a list shorter than a page
\* and one of a full page
CacheUpstreams == [len : {1, STEAM_REVIEWS_PER_PAGE}, total : {NoneInt}, endCursor : {"next"},
                   hours : {<<>>}]

NoNote == [only |-> NoneInt, none_returned |-> FALSE, no_keywords |-> FALSE]

NoPaging == [offset |-> 0, limit |-> 0, themed_only |-> FALSE,
             fallback_to_all_if_none |-> FALSE]

\* A response, and beside it what the request did: the entry object it used
\* (eid; reused: found in the cache), whether the keys it looked up held an
\* expired entry (stale), the paging arguments it came with (paging), how many
\* keys its purge pass dropped as expired and evicted as excess, and the cursors of the page requests it sent (fetches;
\* attempts: the HTTP requests each of them took; failed: the last of them
\* failed).
NoResp ==
    [seq |-> 0, op |-> "none", status |-> 0, app_id |-> <<>>, review_filter |-> "",
     language |-> <<>>, count |-> NoneInt, eid |-> NoneInt, reused |-> FALSE,
     stale |-> FALSE, expired |-> 0, evicted |-> 0,
     analysed |-> <<>>, note |-> NoNote, fetches |-> <<>>, attempts |-> <<>>,
     failed |-> FALSE,
     mode |-> "", rows |-> <<>>, total_available |-> 0, offset |-> 0, limit |-> 0,
     paging |-> NoPaging]

\* lines 634-641: which of the three sentences the note is made of
NoteOf(steam_total, review_count_req, analysed_count, themed_used) ==
    [only |-> IF steam_total >= 0 /\ steam_total < review_count_req
              THEN steam_total ELSE NoneInt,
     none_returned |-> analysed_count = 0,
     no_keywords |-> analysed_count # 0 /\ themed_used = <<>>]

NoteIsNone(note) == note.only = NoneInt /\ ~note.none_returned /\ ~note.no_keywords

RECURSIVE Themed(_)
Themed(rs) ==
    IF rs = <<>> THEN <<>>
    ELSE (IF HasThemeTags(Head(rs)) THEN <<Head(rs)>> ELSE <<>>) \o Themed(Tail(rs))

\* lines 389-396: the three counters after the loop over the records, each
\* record being given by its sentiment_label ("None": it has none)
RECURSIVE CountLabels(_)
CountLabels(review_list) ==
    IF review_list = <<>> THEN [pos |-> 0, neg |-> 0, neu |-> 0]
    ELSE LET n == Len(review_list)
             c == CountLabels(SubSeq(review_list, 1, n - 1))
             label == review_list[n]
         IN  IF label = "Positive" THEN [c EXCEPT !.pos = @ + 1]
             ELSE IF label = "Negative" THEN [c EXCEPT !.neg = @ + 1]
             ELSE [c EXCEPT !.neu = @ + 1]

\* round((part / whole) * 100, 2), in hundredths of a percent.  No quotient
\* of counts this small lies halfway between two hundredths, so the way
\* round() breaks ties does not show.
Percent(part, whole) == (2 * part * 10000 + whole) \div (2 * whole)

\* (variant: the percentages are taken over all the records)
AnalyzeThemeOverTotal(review_list) ==
    LET c == CountLabels(review_list)
        total == c.pos + c.neg + c.neu
    IN  [positive_count |-> c.pos, negative_count |-> c.neg, neutral_count |-> c.neu,
         total_found |-> total,
         positive_percent |-> IF total > 0 THEN Percent(c.pos, total) ELSE 0,
         negative_percent |-> IF total > 0 THEN Percent(c.neg, total) ELSE 0]

\* analyze_theme_reviews
analyze_theme_reviews(review_list) ==
    LET c == CountLabels(review_list)
        total == c.pos + c.neg + c.neu
        pn_total == c.pos + c.neg
    IN  [positive_count |-> c.pos, negative_count |-> c.neg, neutral_count |-> c.neu,
         total_found |-> total,
         positive_percent |-> IF pn_total > 0 THEN Percent(c.pos, pn_total) ELSE 0,
         negative_percent |-> IF pn_total > 0 THEN Percent(c.neg, pn_total) ELSE 0]

\* line 434 without the last edge, in tenths of an hour
HISTOGRAM_BINS == <<0, 10, 50, 100, 200, 500, 1000>>

RECURSIVE SeqMax(_)
SeqMax(xs) == IF Len(xs) = 1 THEN xs[1] ELSE Max(xs[1], SeqMax(Tail(xs)))

\* np.histogram(arr, bins): a ValueError when an edge is above the next one,
\* else the count of each bin, closed below and open above but for the last,
\* which is closed at both ends
NpHistogram(arr, bins) ==
    IF \E i \in 1..(Len(bins) - 1) : bins[i] > bins[i + 1]
    THEN [error |-> TRUE, hist |-> <<>>]
    ELSE [error |-> FALSE,
          hist |-> [i \in 1..(Len(bins) - 1) |->
                       Cardinality({j \in 1..Len(arr) :
                           /\ bins[i] <= arr[j]
                           /\ IF i = Len(bins) - 1 THEN arr[j] <= bins[i + 1]
                              ELSE arr[j] < bins[i + 1]})]]

\* calculate_playtime_distribution, its histogram; the argument is the
\* playtime_hours of the records, in tenths of an hour.  error: the call
\* raises instead of returning.
calculate_playtime_distribution(playtime_hours) ==
    LET playtimes == SelectSeq(playtime_hours, LAMBDA h : h > 0)
    IN  IF playtimes = <<>>
        THEN [error |-> FALSE, enough_data |-> FALSE,
              histogram_buckets |-> [i \in 1..Len(HISTOGRAM_BINS) |-> 0]]
        ELSE LET bins == Append(HISTOGRAM_BINS, SeqMax(playtimes) + 10)
                 h == NpHistogram(playtimes, bins)
             IN  [error |-> h.error, enough_data |-> TRUE, histogram_buckets |-> h.hist]

\* lines 607-728 for the entry e (object eid) and the locals loc:
\* the response, the entry as left in the heap and the cache after the store.
\* Line 623 is outside any try: when it raises, the request ends as an HTTP
\* 500 before the store, the entry being left as the top-up wrote it.
Finish(c, e, eid, loc, app_id, review_filter, language, review_count_req, t, r0) ==
    LET effective_target == e.effective_target_count
        analysed_count == Min(effective_target, Len(e.all_reviews))
        reviews_used == SubSeq(e.all_reviews, 1, analysed_count)
        themed_used == Themed(reviews_used)
        playtime_distribution == calculate_playtime_distribution(PlaytimesOf(up, reviews_used))
        r1 == [r0 EXCEPT !.op = "analyze", !.app_id = app_id,
                         !.review_filter = review_filter, !.language = language,
                         !.count = review_count_req, !.eid = eid,
                         !.fetches = loc.fetches, !.attempts = loc.attempts,
                         !.failed = loc.failed]
    IN  IF playtime_distribution.error
        THEN [e |-> e, cache |-> c, resp |-> [r1 EXCEPT !.status = 500]]
        ELSE
        [e |-> [e EXCEPT !.created_at = t, !.effective_target_count = effective_target],
         cache |-> _store_entry_under_keys(c, eid, app_id, review_filter, language,
                       review_count_req,
                       IF analysed_count > 0 THEN analysed_count ELSE review_count_req),
         resp |-> [r1 EXCEPT !.status = 200,
                   !.analysed = reviews_used,
                   !.note = NoteOf(e.steam_total_reviews, review_count_req,
                                   analysed_count, themed_used)]]

ErrResp(op, status, seq) == [NoResp EXCEPT !.seq = seq, !.op = op, !.status = status]

\* what the purge pass of a request did, for the record of the response
PurgeStats(c, h, t, r0) ==
    [r0 EXCEPT !.expired = Len(c) - Len(PurgeExpired(c, h, t)),
               !.evicted = Len(PurgeExpired(c, h, t)) - Len(_purge_cache(c, h, t))]

IsStale(c, h, t, app_id, review_filter, language, hint) ==
    LET entry == _get_cached_entry(c, app_id, review_filter, language, hint)
    IN  entry # NoneInt /\ Expired(h[entry].created_at, t)

NoCall == [fn |-> "none", arg |-> <<>>, ret |-> <<>>]

Idle == [pc |-> "idle"]
Procs == {"p1", "p2"}
Active(ps) == {p \in Procs : ps[p].pc # "idle"}
ProcRefs(ps) == {ps[p].eid : p \in Active(ps)}

HeapPut(h, eid, e) == [i \in DOMAIN h \cup {eid} |-> IF i = eid THEN e ELSE h[i]]

InitWith(stubs) ==
    /\ cache = <<>>
    /\ heap = NoHeap
    /\ now = 0
    /\ up \in stubs
    /\ resp = NoResp
    /\ procs = [p \in Procs |-> Idle]
    /\ call = NoCall

\* time passes
Tick ==
    /\ now < MaxTime
    /\ now' = now + 1
    /\ UNCHANGED <<cache, heap, up, call, resp, procs>>

\* lines 488-492: the lookup and the expiry check of /analyze
Lookup(c, h, app_id, review_filter, language, review_count_req, t) ==
    LET entry == _get_cached_entry(c, app_id, review_filter, language, review_count_req)
    IN  IF entry # NoneInt /\ ~Expired(h[entry].created_at, t) THEN entry ELSE NoneInt

\* (variant: the purge runs before the app_id is looked at)
AnalyzeRejectAfterPurge ==
    /\ resp' = ErrResp("analyze", 400, resp.seq + 1)
    /\ cache' = _purge_cache(cache, heap, now)
    /\ heap' = Collect(heap, CacheRefs(cache') \cup ProcRefs(procs))

\* lines 472-474: no app_id, the request ends before the purge
AnalyzeReject ==
    /\ resp' = ErrResp("analyze", 400, resp.seq + 1)
    /\ UNCHANGED <<cache, heap>>

\* POST /analyze handled from start to end with no other request in between
Analyze(req, plan) ==
    LET app_id == Strip(req.app_id)
        review_count_req == _clamp(req.review_count, MIN_REVIEW_COUNT, MAX_REVIEW_COUNT)
        review_filter == NormFilter(req.filter)
        language == NormLanguage(req.language)
    IN
    /\ resp.seq < MaxReq
    /\ IF app_id = <<>>
       THEN AnalyzeReject
       ELSE \E c1 \in {_purge_cache(cache, heap, now)} :
            \E found \in {Lookup(c1, heap, app_id, review_filter, language, review_count_req, now)} :
            \E x \in {TopUp(IF found # NoneInt THEN heap[found] ELSE NewEntry(now, review_count_req),
                            up, plan, review_count_req, now)} :
            \E eid \in {IF found # NoneInt THEN found ELSE FreshId(Collect(heap, CacheRefs(c1)))} :
            \E r0 \in {[PurgeStats(cache, heap, now, NoResp) EXCEPT
                          !.seq = resp.seq + 1, !.reused = found # NoneInt,
                          !.stale = IsStale(cache, heap, now, app_id, review_filter,
                                            language, review_count_req)]} :
            \E r \in {Finish(c1, x.e, eid, x.loc, app_id, review_filter,
                             language, review_count_req, now, r0)} :
                /\ cache' = r.cache
                /\ heap' = Collect(HeapPut(heap, eid, r.e), CacheRefs(r.cache))
                /\ resp' = r.resp
    /\ UNCHANGED <<now, up, call, procs>>

\* (variant: an empty themed list falls back to the whole prefix whether or not
\* the request asks for it)
SelectRowsAlwaysFallback(e, total_count_hint, themed_only, fallback_to_all_if_none) ==
    LET effective_target == _clamp(e.effective_target_count, MIN_REVIEW_COUNT, MAX_REVIEW_COUNT)
        total_count == IF total_count_hint = NoneInt \/ total_count_hint <= 0
                       THEN Min(effective_target, Len(e.all_reviews))
                       ELSE Min(_clamp(total_count_hint, MIN_REVIEW_COUNT, MAX_REVIEW_COUNT),
                                Len(e.all_reviews))
        reviews_used == SubSeq(e.all_reviews, 1, total_count)
        themed == Themed(reviews_used)
        items == IF themed_only THEN themed ELSE reviews_used
    IN  IF themed_only /\ Len(items) = 0 /\ Len(reviews_used) > 0
        THEN [mode |-> "all_fallback", items |-> reviews_used]
        ELSE [mode |-> IF themed_only THEN "themed" ELSE "all", items |-> items]

\* lines 838-864: the prefix of the entry's items in use and the list that
\* /reviews selects from it
SelectRows(e, total_count_hint, themed_only, fallback_to_all_if_none) ==
    LET effective_target == _clamp(e.effective_target_count, MIN_REVIEW_COUNT, MAX_REVIEW_COUNT)
        total_count == IF total_count_hint = NoneInt \/ total_count_hint <= 0
                       THEN Min(effective_target, Len(e.all_reviews))
                       ELSE Min(_clamp(total_count_hint, MIN_REVIEW_COUNT, MAX_REVIEW_COUNT),
                                Len(e.all_reviews))
        reviews_used == SubSeq(e.all_reviews, 1, total_count)
        themed == Themed(reviews_used)
        items == IF themed_only THEN themed ELSE reviews_used
    IN  IF themed_only /\ fallback_to_all_if_none /\ Len(items) = 0 /\ Len(reviews_used) > 0
        THEN [mode |-> "all_fallback", items |-> reviews_used]
        ELSE [mode |-> IF themed_only THEN "themed" ELSE "all", items |-> items]

\* (variant: the export never falls back to all the reviews)
ExportRowsNoFallback(e, total_count_hint, themed_only, fallback_to_all_if_none) ==
    LET effective_target == _clamp(e.effective_target_count, MIN_REVIEW_COUNT, MAX_REVIEW_COUNT)
        total_count == IF total_count_hint = NoneInt \/ total_count_hint <= 0
                       THEN Min(effective_target, Len(e.all_reviews))
                       ELSE Min(_clamp(total_count_hint, MIN_REVIEW_COUNT, MAX_REVIEW_COUNT),
                                Len(e.all_reviews))
        reviews_used == SubSeq(e.all_reviews, 1, total_count)
    IN  [mode |-> IF themed_only THEN "themed" ELSE "all",
         items |-> IF themed_only THEN Themed(reviews_used) ELSE reviews_used]

\* lines 917-933: the rows /export selects from the entry's items
ExportRows(e, total_count_hint, themed_only, fallback_to_all_if_none) ==
    LET effective_target == _clamp(e.effective_target_count, MIN_REVIEW_COUNT, MAX_REVIEW_COUNT)
        total_count == IF total_count_hint = NoneInt \/ total_count_hint <= 0
                       THEN Min(effective_target, Len(e.all_reviews))
                       ELSE Min(_clamp(total_count_hint, MIN_REVIEW_COUNT, MAX_REVIEW_COUNT),
                                Len(e.all_reviews))
        reviews_used == SubSeq(e.all_reviews, 1, total_count)
        themed == Themed(reviews_used)
        rows == IF themed_only THEN themed ELSE reviews_used
        mode_used == IF themed_only THEN "themed" ELSE "all"
    IN  IF themed_only /\ fallback_to_all_if_none /\ Len(rows) = 0 /\ Len(reviews_used) > 0
        THEN [mode |-> "all_fallback", items |-> reviews_used]
        ELSE [mode |-> mode_used, items |-> rows]

\* lines 947-953: the CSV row of a review (its theme tags column and its text)
CsvRow(r) == [theme_tags |-> IF HasThemeTags(r) THEN "time" ELSE "", review_text |-> r]

\* items[start:end] for 0 <= start <= end
Slice(items, start, end) == SubSeq(items, start + 1, Min(end, Len(items)))

\* lines 821-822, 866-882: the page of /reviews; lines 935-958: /export writes
\* every selected row
ReadBody(op, r0, e, req) ==
    LET sel == SelectRows(e, req.total_count, req.themed_only, req.fallback_to_all_if_none)
        exp == ExportRows(e, req.total_count, req.themed_only, req.fallback_to_all_if_none)
        limit == _clamp(req.limit, 1, PAGE_LIMIT_MAX)
        offset == Max(0, req.offset)
    IN  IF op = "reviews"
        THEN [r0 EXCEPT !.mode = sel.mode, !.total_available = Len(sel.items),
                        !.rows = Slice(sel.items, offset, offset + limit),
                        !.offset = offset, !.limit = limit,
                        !.paging = [offset |-> req.offset, limit |-> req.limit,
                                    themed_only |-> req.themed_only,
                                    fallback_to_all_if_none |-> req.fallback_to_all_if_none]]
        ELSE [r0 EXCEPT !.mode = exp.mode, !.total_available = Len(exp.items),
                        !.rows = [i \in 1..Len(exp.items) |-> CsvRow(exp.items[i])],
                        !.paging = [NoPaging EXCEPT
                                    !.themed_only = req.themed_only,
                                    !.fallback_to_all_if_none = req.fallback_to_all_if_none]]

\* GET /reviews and GET /export (lines 800-882, 885-958)
Read(op, req) ==
    LET app_id == Strip(req.app_id)
        review_filter == NormFilter(req.filter)
        language == NormLanguage(req.language)
        total_count_hint == req.total_count
    IN
    /\ resp.seq < MaxReq
    /\ IF app_id = <<>>
       THEN /\ resp' = ErrResp(op, 400, resp.seq + 1)
            /\ UNCHANGED <<cache, heap>>
       ELSE \E c1 \in {_purge_cache(cache, heap, now)} :
            \E cached \in {_get_cached_entry(c1, app_id, review_filter, language, total_count_hint)} :
            \E r0 \in {[PurgeStats(cache, heap, now, NoResp) EXCEPT
                          !.seq = resp.seq + 1, !.op = op,
                          !.app_id = app_id, !.review_filter = review_filter,
                          !.language = language, !.count = total_count_hint,
                          !.stale = IsStale(cache, heap, now, app_id, review_filter,
                                            language, total_count_hint)]} :
                /\ cache' = c1
                /\ heap' = Collect(heap, CacheRefs(c1) \cup ProcRefs(procs))
                /\ resp' = IF cached = NoneInt \/ Expired(heap[cached].created_at, now)
                           THEN [r0 EXCEPT !.status = 404]
                           ELSE ReadBody(op, [r0 EXCEPT !.status = 200, !.eid = cached,
                                                        !.reused = TRUE],
                                         heap[cached], req)
    /\ UNCHANGED <<now, up, call, procs>>

get_paginated_reviews(req) == Read("reviews", req)

export_reviews_csv(req) == Read("export", req)

-----------------------------------------------------------------------------
\* The cache under every request, the clock running: two apps, no upstream failure

AnalyzeStep == \E req \in AnalyzeRequests : Analyze(req, NoFail)

ReviewsStep == \E req \in ReadRequests : get_paginated_reviews(req)

ExportStep == \E req \in ReadRequests : export_reviews_csv(req)

InitCache == InitWith(CacheUpstreams)

NextCache == AnalyzeStep \/ ReviewsStep \/ ExportStep \/ Tick

SpecCache == InitCache /\ [][NextCache]_vars

-----------------------------------------------------------------------------
\* Properties of the cache (SpecCache)

IsRequestStep == resp'.seq = resp.seq + 1

IsPrefix(s, t) == Len(s) <= Len(t) /\ SubSeq(t, 1, Len(s)) = s

SameSubject(r1, r2) ==
    /\ r1.app_id = r2.app_id
    /\ r1.review_filter = r2.review_filter
    /\ r1.language = r2.language

\* created_at more than CACHE_TTL_SECONDS before t
TooOld(e, t) == (t - e.created_at) > CACHE_TTL_SECONDS

UpstreamPrefix(n) == [i \in 1..n |-> i]

\* the keys the lookup of the request behind response r tries
LookupKeys(r) ==
    {CACHE_KEY_V2(r.app_id, r.review_filter, r.language)}
    \cup (IF r.count = NoneInt THEN {}
          ELSE {CACHE_KEY_V1(r.app_id, r.count, r.review_filter, r.language)})

\* C4: an entry older than the TTL is absent for every operation: /reviews and
\* /export never answer from it and answer 404 when the keys they try hold
\* nothing younger; /analyze never reuses it and then starts a new entry,
\* collecting from the start cursor; after the purge pass of any request no
\* key maps to such an entry.
C4_ExpiredIsAbsent ==
    [][(IsRequestStep /\ resp'.status # 400) =>
        LET r == resp'
            young == {k \in LookupKeys(r) \cap CacheKeys(cache) :
                         ~TooOld(heap[CacheGet(cache, k)], now)}
        IN  /\ r.reused => ~TooOld(heap[r.eid], now)
            /\ (young = {} /\ r.op \in {"reviews", "export"}) => r.status = 404
            /\ (young = {} /\ r.op = "analyze") =>
                   /\ ~r.reused
                   /\ r.fetches # <<>> /\ r.fetches[1] = StartCursor
                   /\ heap'[r.eid].all_reviews = UpstreamPrefix(Min(r.count, up.len))
            /\ \A i \in 1..Len(cache') : ~TooOld(heap'[cache'[i].e], now)]_vars

\* an /analyze has just found its keys holding an expired entry and started anew
C4_Witness ==
    /\ resp.op = "analyze" /\ resp.stale /\ ~resp.reused /\ resp.expired > 0
    /\ resp.analysed # <<>>

\* C5: right after /analyze stored its entry, a lookup with the three fields
\* and any count hint returns the same entry object as the lookup with no
\* hint, and the legacy key of the requested count holds that object too.
C5_LegacyLookupSameEntry ==
    (resp.op = "analyze" /\ resp.status = 200) =>
        /\ resp.eid \in DOMAIN heap
        /\ _get_cached_entry(cache, resp.app_id, resp.review_filter, resp.language, NoneInt)
               = resp.eid
        /\ \A h \in 0..(MAX_REVIEW_COUNT + 1) :
               _get_cached_entry(cache, resp.app_id, resp.review_filter, resp.language, h)
                   = resp.eid
        /\ CacheGet(cache, CACHE_KEY_V1(resp.app_id, resp.count, resp.review_filter,
                                        resp.language)) = resp.eid

\* an entry was reused and stored again while the cache holds another object
C5_Witness ==
    /\ resp.op = "analyze" /\ resp.status = 200 /\ resp.reused
    /\ Cardinality(CacheRefs(cache)) >= 2
    /\ heap[resp.eid].all_reviews # <<>>

KeysOfApp(app_id) ==
    {CACHE_KEY_V2(app_id, "recent", <<"english">>)}
    \cup {CACHE_KEY_V1(app_id, c, "recent", <<"english">>) : c \in 0..(MAX_REVIEW_COUNT + 1)}

\* C6: all the keys of one (app_id, filter, language) that are in the cache
\* map to one and the same entry object.
C6_AllKeysOneEntry ==
    \A app_id \in Apps :
        \A k, j \in KeysOfApp(app_id) \cap CacheKeys(cache) :
            CacheGet(cache, k) = CacheGet(cache, j)

\* C9: a purge pass that is left with more than CACHE_MAX_ITEMS unexpired keys
\* removes exactly the excess, and no key it keeps is older than one it evicts.
C9_EvictOldestFirst ==
    LET live == {k \in CacheKeys(cache) : ~TooOld(heap[CacheGet(cache, k)], now)}
        after == _purge_cache(cache, heap, now)
        kept == CacheKeys(after)
        created_at(k) == heap[CacheGet(cache, k)].created_at
    IN  Cardinality(live) > CACHE_MAX_ITEMS =>
            /\ Len(after) = CACHE_MAX_ITEMS
            /\ Cardinality(kept) = CACHE_MAX_ITEMS
            /\ kept \subseteq live
            /\ \A k \in kept : CacheGet(after, k) = CacheGet(cache, k)
            /\ \A k \in kept, j \in live \ kept : created_at(j) <= created_at(k)

\* the cache holds an excess of unexpired keys of different ages, and an expired one
C9_Witness ==
    LET live == {k \in CacheKeys(cache) : ~TooOld(heap[CacheGet(cache, k)], now)}
    IN  /\ Cardinality(live) > CACHE_MAX_ITEMS
        /\ \E k, j \in live :
               heap[CacheGet(cache, k)].created_at < heap[CacheGet(cache, j)].created_at
        /\ live # CacheKeys(cache)

\* C10: an /analyze with a missing or blank app_id answers 400, sends no
\* upstream request and leaves the cache and its entries as they were.
C10_RejectBeforePurge ==
    [][\A req \in AnalyzeRequests :
          (Strip(req.app_id) = <<>> /\ Analyze(req, NoFail)) =>
              /\ resp'.status = 400
              /\ resp'.fetches = <<>>
              /\ cache' = cache
              /\ heap' = heap]_vars

\* a request was rejected while the cache held keys a purge would have removed
C10_Witness ==
    /\ resp.op = "analyze" /\ resp.status = 400
    /\ _purge_cache(cache, heap, now) # cache

IsReadStep == IsRequestStep /\ resp'.op \in {"reviews", "export"}

\* C11: /reviews and /export send no page request and leave every entry that
\* stays in the cache as it was (items, cursor, source total, effective
\* target, created_at); the /reviews or /export that comes next after an
\* /analyze of the same subject, within the TTL, is answered 200 from the
\* entry that /analyze stored.
C11_ReadsChangeNothing ==
    [][IsReadStep =>
        /\ resp'.fetches = <<>>
        /\ DOMAIN heap' \subseteq DOMAIN heap
        /\ \A eid \in DOMAIN heap' : heap'[eid] = heap[eid]
        /\ CacheRefs(cache') = DOMAIN heap'
        /\ (/\ resp.op = "analyze" /\ resp.status = 200
            /\ resp'.status # 400
            /\ SameSubject(resp, resp')
            /\ now - heap[resp.eid].created_at <= CACHE_TTL_SECONDS) =>
               /\ resp'.status = 200
               /\ resp'.eid = resp.eid
               /\ heap'[resp.eid] = heap[resp.eid]]_vars

\* C11 (first half): /reviews and /export send no page request and leave
\* every entry that stays in the cache as it was.
C11_ReadsKeepEntries ==
    [][IsReadStep =>
        /\ resp'.fetches = <<>>
        /\ DOMAIN heap' \subseteq DOMAIN heap
        /\ \A eid \in DOMAIN heap' : heap'[eid] = heap[eid]]_vars

-----------------------------------------------------------------------------
\* The top-up of one app's entry against every stub, with upstream failures;
\* the requests follow each other within the TTL

TopUpStep == \E req \in TopUpRequests, plan \in Plans : Analyze(req, plan)

InitTopUp == InitWith(Upstreams)

NextTopUp == TopUpStep

SpecTopUp == InitTopUp /\ [][NextTopUp]_vars

-----------------------------------------------------------------------------
\* Properties of the top-up (SpecTopUp)

\* two /analyze in a row on one subject, the second asking for no less and
\* finding the entry of the first in the cache
SuccessiveAnalyze ==
    /\ IsRequestStep
    /\ resp.op = "analyze" /\ resp.status = 200
    /\ resp'.op = "analyze" /\ resp'.status = 200
    /\ SameSubject(resp, resp')
    /\ resp'.count >= resp.count
    /\ resp'.reused /\ resp'.eid = resp.eid

\* the reviews of the stub's pages at the first n of the cursors f
RECURSIVE ReviewsOfPages(_, _, _)
ReviewsOfPages(u, f, n) ==
    IF n = 0 THEN <<>> ELSE ReviewsOfPages(u, f, n - 1) \o UpPage(u, f[n]).reviews

\* C1 (first half): the second of two successive /analyze analyses a sequence
\* that begins with the sequence the first one analysed.
C1_AnalysedPrefix ==
    [][SuccessiveAnalyze => IsPrefix(resp.analysed, resp'.analysed)]_vars

\* C1: the second of two successive /analyze on one subject, asking for no
\* less, analyses a sequence that begins with the sequence the first analysed,
\* and requests no page holding a review the entry already has.
C1_PrefixAndNoRefetch ==
    [][SuccessiveAnalyze =>
        /\ IsPrefix(resp.analysed, resp'.analysed)
        /\ \A i \in 1..Len(resp'.fetches) :
               Range(UpPage(up, resp'.fetches[i]).reviews)
                   \cap Range(heap[resp.eid].all_reviews) = {}]_vars

FirstPageSucceeded(r) ==
    r.fetches # <<>> /\ ~(r.failed /\ Len(r.fetches) = 1)

\* C3: when the first page a top-up obtains reports a total T, 1 <= T < n, the
\* entry's effective_target_count is T, at most T reviews are analysed and the
\* note says the source has only T.
C3_TargetIsSourceTotal ==
    (/\ resp.op = "analyze" /\ resp.status = 200
     /\ FirstPageSucceeded(resp)
     /\ 1 <= up.total /\ up.total < resp.count) =>
        /\ heap[resp.eid].effective_target_count = up.total
        /\ heap[resp.eid].effective_target_count # resp.count
        /\ Len(resp.analysed) <= up.total
        /\ resp.note.only = up.total
        /\ ~NoteIsNone(resp.note)

\* a top-up learnt a total below the requested count and analysed that many
C3_Witness ==
    /\ resp.op = "analyze" /\ resp.status = 200
    /\ FirstPageSucceeded(resp)
    /\ 1 <= up.total /\ up.total < resp.count
    /\ Len(resp.analysed) = up.total
    /\ up.len > up.total

\* C7: an /analyze that finds an unexpired entry whose cursor is null sends no
\* page request.
C7_NullCursorNoFetch ==
    [][(/\ IsRequestStep
        /\ resp'.op = "analyze" /\ resp'.reused
        /\ heap[resp'.eid].cursor = NoCursor) => resp'.fetches = <<>>]_vars

\* C8: when a page request of a top-up fails, the answer is still 200, the
\* entry holds what it held plus the reviews of the pages obtained before the
\* failure and is in the cache, and its cursor is the last cursor obtained:
\* that of the last page obtained or, with no page obtained, the one the entry
\* had; the next /analyze on the entry starts at the failed page.
C8_FailureKeepsProgress ==
    [][IsRequestStep =>
        /\ (resp'.op = "analyze" /\ resp'.failed) =>
            LET r == resp'
                f == r.fetches
                obtained == Len(f) - 1
                items0 == IF r.reused THEN heap[r.eid].all_reviews ELSE <<>>
                cursor0 == IF r.reused THEN heap[r.eid].cursor ELSE StartCursor
            IN  /\ r.status = 200
                /\ heap'[r.eid].all_reviews = items0 \o ReviewsOfPages(up, f, obtained)
                /\ CacheGet(cache', CACHE_KEY_V2(r.app_id, r.review_filter, r.language))
                       = r.eid
                /\ heap'[r.eid].cursor =
                       IF obtained >= 1 THEN UpPage(up, f[obtained]).cursor ELSE cursor0
                /\ heap'[r.eid].cursor = f[Len(f)]
        /\ (/\ resp.op = "analyze" /\ resp.failed
            /\ resp'.op = "analyze" /\ resp'.reused /\ resp'.eid = resp.eid
            /\ resp'.fetches # <<>>) =>
               resp'.fetches[1] = resp.fetches[Len(resp.fetches)]]_vars

\* C8 for the entries that had a cursor when the top-up began
C8_FailureKeepsProgressWithCursor ==
    [][IsRequestStep =>
        /\ (/\ resp'.op = "analyze" /\ resp'.failed
            /\ resp'.reused => heap[resp'.eid].cursor # NoCursor) =>
            LET r == resp'
                f == r.fetches
                obtained == Len(f) - 1
                items0 == IF r.reused THEN heap[r.eid].all_reviews ELSE <<>>
                cursor0 == IF r.reused THEN heap[r.eid].cursor ELSE StartCursor
            IN  /\ r.status = 200
                /\ heap'[r.eid].all_reviews = items0 \o ReviewsOfPages(up, f, obtained)
                /\ CacheGet(cache', CACHE_KEY_V2(r.app_id, r.review_filter, r.language))
                       = r.eid
                /\ heap'[r.eid].cursor =
                       IF obtained >= 1 THEN UpPage(up, f[obtained]).cursor ELSE cursor0
                /\ heap'[r.eid].cursor = f[Len(f)]
        /\ (/\ resp.op = "analyze" /\ resp.failed
            /\ resp'.op = "analyze" /\ resp'.reused /\ resp'.eid = resp.eid
            /\ resp'.fetches # <<>>) =>
               resp'.fetches[1] = resp.fetches[Len(resp.fetches)]]_vars

\* a second page failed after the first was obtained
C8_Witness ==
    /\ resp.op = "analyze" /\ resp.failed /\ Len(resp.fetches) = 2
    /\ heap[resp.eid].all_reviews # <<>>
    /\ heap[resp.eid].cursor = resp.fetches[2]

\* the answer to the last page request of the /analyze behind response r
LastPage(r) == UpPage(up, r.fetches[Len(r.fetches)])

\* the /analyze behind r ran a top-up whose last page request was answered
LastPageObtained(r) ==
    r.op = "analyze" /\ r.status = 200 /\ r.fetches # <<>> /\ ~r.failed

\* C15: when the last page a top-up obtains holds no review, or comes with a
\* next cursor that is absent, blank or "0", the cursor of the entry after the
\* request is null.
C15_ExhaustedCursorIsNull ==
    (/\ LastPageObtained(resp)
     /\ \/ LastPage(resp).reviews = <<>>
        \/ LastPage(resp).cursor \in {NoCursor, "", "0"}) =>
        heap[resp.eid].cursor = NoCursor

\* C15 for the pages that hold a review: a next cursor that is absent, blank or
\* "0" leaves the entry with a null cursor
C15_DegenerateCursorIsNull ==
    (/\ LastPageObtained(resp)
     /\ LastPage(resp).reviews # <<>>
     /\ LastPage(resp).cursor \in {NoCursor, "", "0"}) =>
        heap[resp.eid].cursor = NoCursor

\* C16: after any sequence of /analyze requests on one subject, one at a time,
\* with no expiry and no eviction, the items of the entry are the first
\* len(items) reviews of the upstream list, in upstream order.
C16_ItemsAreUpstreamPrefix ==
    \A eid \in DOMAIN heap :
        heap[eid].all_reviews = UpstreamPrefix(Len(heap[eid].all_reviews))

\* C16 without the order: no review is twice in the items of an entry
C16_NoDuplicate ==
    \A eid \in DOMAIN heap :
        \A i, j \in 1..Len(heap[eid].all_reviews) :
            heap[eid].all_reviews[i] = heap[eid].all_reviews[j] => i = j

\* C16 for the top-ups of an entry that has a cursor and whose items are a
\* prefix of the upstream list: they leave a prefix of the upstream list
C16_TopUpWithCursorKeepsPrefix ==
    [][(/\ IsRequestStep
        /\ resp'.op = "analyze" /\ resp'.reused
        /\ heap[resp'.eid].cursor # NoCursor
        /\ heap[resp'.eid].all_reviews = UpstreamPrefix(Len(heap[resp'.eid].all_reviews))) =>
            heap'[resp'.eid].all_reviews = UpstreamPrefix(Len(heap'[resp'.eid].all_reviews))]_vars

\* C17: in every entry as an /analyze stores it, effective_target_count is at
\* most MAX_REVIEW_COUNT; it is the lesser of the requested count and
\* steam_total_reviews when the entry has a steam_total_reviews (reported by
\* the upstream or inferred when the list ran out), else the requested count.
C17_EffectiveTarget ==
    (resp.op = "analyze" /\ resp.status = 200) =>
        LET e == heap[resp.eid]
        IN  /\ e.effective_target_count <= MAX_REVIEW_COUNT
            /\ e.effective_target_count =
                   IF e.steam_total_reviews # NoneInt
                   THEN (IF resp.count < e.steam_total_reviews
                         THEN resp.count ELSE e.steam_total_reviews)
                   ELSE resp.count

\* C17, the cap alone
C17_TargetWithinCap ==
    (resp.op = "analyze" /\ resp.status = 200) =>
        heap[resp.eid].effective_target_count <= MAX_REVIEW_COUNT

\* C17 for the totals the upstream reports that are not 0
C17_TargetOfReportedTotal ==
    (/\ resp.op = "analyze" /\ resp.status = 200
     /\ heap[resp.eid].steam_total_reviews = up.total /\ up.total >= 1) =>
        heap[resp.eid].effective_target_count =
            IF resp.count < up.total THEN resp.count ELSE up.total

\* C17 for the totals of 1 or more, reported or inferred
C17_TargetOfKnownTotal ==
    (/\ resp.op = "analyze" /\ resp.status = 200
     /\ heap[resp.eid].steam_total_reviews >= 1) =>
        heap[resp.eid].effective_target_count =
            IF resp.count < heap[resp.eid].steam_total_reviews
            THEN resp.count ELSE heap[resp.eid].steam_total_reviews

\* C18: as long as an entry lives, its items only grow at the end: over every
\* step, the items an entry had are the beginning of the items it has.  (A
\* review stands for its record: text, playtime, sentiment and tags are those
\* of the review.)  The dict a request creates is a new entry, whatever its id.
C18_ItemsAppendOnly ==
    [][\A eid \in DOMAIN heap \cap DOMAIN heap' :
          (IsRequestStep /\ resp'.eid = eid => resp'.reused) =>
              /\ Len(heap'[eid].all_reviews) >= Len(heap[eid].all_reviews)
              /\ \A i \in 1..Len(heap[eid].all_reviews) :
                     heap'[eid].all_reviews[i] = heap[eid].all_reviews[i]]_vars

\* a top-up has added the reviews of a page to an entry that had some
C18_Witness ==
    /\ LastPageObtained(resp) /\ resp.reused
    /\ LastPage(resp).reviews # <<>>
    /\ Len(heap[resp.eid].all_reviews) > Len(LastPage(resp).reviews)

\* C20: when a top-up has ended, the entry holds at least
\* effective_target_count items, or its cursor is null, or a page request of
\* the top-up failed.
C20_TopUpStopsForAReason ==
    (resp.op = "analyze" /\ resp.status = 200 /\ resp.fetches # <<>>) =>
        \/ Len(heap[resp.eid].all_reviews) >= heap[resp.eid].effective_target_count
        \/ heap[resp.eid].cursor = NoCursor
        \/ resp.failed

\* C20 for the top-ups whose last page held a review
C20_StopsAfterNonEmptyPage ==
    (/\ LastPageObtained(resp)
     /\ LastPage(resp).reviews # <<>>) =>
        \/ Len(heap[resp.eid].all_reviews) >= heap[resp.eid].effective_target_count
        \/ heap[resp.eid].cursor = NoCursor

-----------------------------------------------------------------------------
\* /analyze requests that overlap (SpecConc).  The server handles each request
\* on a thread of its own and takes no lock; a request gives way to the others
\* at least where it waits for the upstream.  A request is four kinds of step:
\* CStart (lines 472-537, up to the loop), CSend (the loop condition and the
\* page request going out), CRecv (the answer handled), CFinish (lines
\* 599-728).  procs[p] holds the locals of the request thread p is handling;
\* the entry dict and its all_reviews list are the shared objects in heap.

ConcRequests ==
    {[app_id |-> <<"7">>, review_count |-> MAX_REVIEW_COUNT, filter |-> "recent",
      language |-> <<>>],
     [app_id |-> <<>>, review_count |-> MAX_REVIEW_COUNT, filter |-> "recent",
      language |-> <<>>]}

ConcPlans == {NoFail, [failAt |-> 1, kind |-> "throttled"]}

\* a list of MaxSrc reviews, served in full pages, that reports no total
ConcUpstreams == [len : {MaxSrc}, total : {NoneInt}, endCursor : {"next"}, hours : {<<>>}]

CStart(p, req, plan) ==
    LET app_id == Strip(req.app_id)
        review_count_req == _clamp(req.review_count, MIN_REVIEW_COUNT, MAX_REVIEW_COUNT)
        review_filter == NormFilter(req.filter)
        language == NormLanguage(req.language)
    IN
    /\ procs[p].pc = "idle"
    /\ resp.seq + Cardinality(Active(procs)) < MaxReq
    /\ IF app_id = <<>>
       THEN AnalyzeReject /\ UNCHANGED procs
       ELSE \E c1 \in {_purge_cache(cache, heap, now)} :
            \E found \in {Lookup(c1, heap, app_id, review_filter, language, review_count_req, now)} :
            \E eid \in {IF found # NoneInt THEN found
                        ELSE FreshId(Collect(heap, CacheRefs(c1) \cup ProcRefs(procs)))} :
            \E x \in {Prologue(IF found # NoneInt THEN heap[found]
                               ELSE NewEntry(now, review_count_req), review_count_req)} :
                /\ cache' = c1
                /\ heap' = Collect(HeapPut(heap, eid, x.e),
                                   CacheRefs(c1) \cup ProcRefs(procs) \cup {eid})
                /\ procs' = [procs EXCEPT ![p] =
                       [pc |-> IF x.loc.topup THEN "loop" ELSE "post",
                        app_id |-> app_id, review_filter |-> review_filter,
                        language |-> language, review_count_req |-> review_count_req,
                        plan |-> plan, eid |-> eid, loc |-> x.loc,
                        r0 |-> [PurgeStats(cache, heap, now, NoResp) EXCEPT
                                   !.reused = found # NoneInt,
                                   !.stale = IsStale(cache, heap, now, app_id, review_filter,
                                                     language, review_count_req)]]]
                /\ UNCHANGED resp
    /\ UNCHANGED <<now, up, call>>

\* lines 539-549
CSend(p) ==
    LET me == procs[p]
        x == [loc |-> me.loc, e |-> heap[me.eid]]
    IN
    /\ me.pc = "loop"
    /\ procs' = [procs EXCEPT ![p] =
           IF ~LoopCond(x) THEN [me EXCEPT !.pc = "post"]
           ELSE IF me.loc.pcursor \in me.loc.seen_cursors
                THEN [me EXCEPT !.pc = "post", !.loc.brk = TRUE]
                ELSE [me EXCEPT !.pc = "wait", !.loc = LoopSend(@)]]
    /\ UNCHANGED <<cache, heap, now, up, call, resp>>

\* lines 551-597
CRecv(p) ==
    LET me == procs[p]
    IN
    /\ me.pc = "wait"
    /\ \E x \in {LoopRecv([loc |-> me.loc, e |-> heap[me.eid]], up, me.plan,
                          me.review_count_req)} :
           /\ heap' = HeapPut(heap, me.eid, x.e)
           /\ procs' = [procs EXCEPT ![p] = [me EXCEPT !.pc = "loop", !.loc = x.loc]]
    /\ UNCHANGED <<cache, now, up, call, resp>>

\* lines 599-728
CFinish(p) ==
    LET me == procs[p]
        x0 == [loc |-> me.loc, e |-> heap[me.eid]]
    IN
    /\ me.pc = "post"
    /\ \E x \in {IF me.loc.topup THEN Epilogue(x0, now) ELSE x0} :
       \E r \in {Finish(cache, x.e, me.eid, x.loc, me.app_id, me.review_filter,
                        me.language, me.review_count_req, now,
                        [me.r0 EXCEPT !.seq = resp.seq + 1])} :
           /\ cache' = r.cache
           /\ procs' = [procs EXCEPT ![p] = Idle]
           /\ heap' = Collect(HeapPut(heap, me.eid, r.e),
                              CacheRefs(r.cache) \cup ProcRefs(procs'))
           /\ resp' = r.resp
    /\ UNCHANGED <<now, up, call>>

StartStep == \E p \in Procs, req \in ConcRequests, plan \in ConcPlans : CStart(p, req, plan)

SendStep == \E p \in Procs : CSend(p)

RecvStep == \E p \in Procs : CRecv(p)

FinishStep == \E p \in Procs : CFinish(p)

InitConc == InitWith(ConcUpstreams)

NextConc == StartStep \/ SendStep \/ RecvStep \/ FinishStep \/ Tick

SpecConc == InitConc /\ [][NextConc]_vars

\* what one collection of n reviews with no other request about gathers
SequentialItems(n) == TopUp(NewEntry(0, n), up, NoFail, n, 0).e.all_reviews

AllIdle == \A p \in Procs : procs[p].pc = "idle"

\* C2: once the overlapping /analyze requests on one subject have all
\* returned, the items of every cached entry are a beginning of the sequence
\* one sequential collection gathers (no review twice, none left out), and
\* all of it in the entry of a request that met no failure.
C2_ConcurrentAsSequential ==
    AllIdle =>
        \A i \in 1..Len(cache) :
            LET items == heap[cache[i].e].all_reviews
            IN  /\ IsPrefix(items, SequentialItems(MAX_REVIEW_COUNT))
                /\ (/\ resp.op = "analyze" /\ resp.status = 200 /\ ~resp.failed
                    /\ cache[i].e = resp.eid) =>
                       items = SequentialItems(MAX_REVIEW_COUNT)


-----------------------------------------------------------------------------
\* The two analysis functions called on lists of records, and /analyze over
\* records that carry a playtime

MaxRecords == 3

\* sentiment labels: the two that are counted, and two that are not
Labels == {"Positive", "Negative", "Neutral", "Mixed"}

SeqsUpTo(S, n) == UNION {[1..k -> S] : k \in 0..n}

SixPositiveFourNegative == [i \in 1..10 |-> IF i <= 6 THEN "Positive" ELSE "Negative"]

ThemeLists == SeqsUpTo(Labels, MaxRecords) \cup {SixPositiveFourNegative}

\* playtime_hours in tenths of an hour: none, and hours on both sides of the
\* edges 1 and 100
Playtimes == {0, 5, 10, 990, 1000}

PlaytimeLists == SeqsUpTo(Playtimes, MaxRecords) \cup {<<10, 10, 10, 10, 1000>>}

ThemeCall ==
    /\ \E review_list \in ThemeLists :
           call' = [fn |-> "analyze_theme_reviews", arg |-> review_list,
                    ret |-> analyze_theme_reviews(review_list)]
    /\ UNCHANGED <<cache, heap, now, up, resp, procs>>

PlaytimeCall ==
    /\ \E playtime_hours \in PlaytimeLists :
           call' = [fn |-> "calculate_playtime_distribution", arg |-> playtime_hours,
                    ret |-> calculate_playtime_distribution(playtime_hours)]
    /\ UNCHANGED <<cache, heap, now, up, resp, procs>>

\* stubs of one page whose reviews carry a playtime
PlaytimeUpstreams == [len : {STEAM_REVIEWS_PER_PAGE}, total : {NoneInt}, endCursor : {"next"},
                      hours : {[r \in 1..STEAM_REVIEWS_PER_PAGE |-> 0],
                               [r \in 1..STEAM_REVIEWS_PER_PAGE |-> 5 * r],
                               [r \in 1..STEAM_REVIEWS_PER_PAGE |-> 1000 * r]}]

PlaytimeAnalyzeRequests ==
    {[app_id |-> <<"7">>, review_count |-> n, filter |-> "", language |-> <<>>] : n \in Counts}

PlaytimeAnalyzeStep == \E req \in PlaytimeAnalyzeRequests : Analyze(req, NoFail)

InitCalls == InitWith(ConcUpstreams)

NextCalls == ThemeCall \/ PlaytimeCall

SpecCalls == InitCalls /\ [][NextCalls]_vars

InitPlaytime == InitWith(PlaytimeUpstreams)

NextPlaytime == PlaytimeAnalyzeStep \/ Tick

SpecPlaytime == InitPlaytime /\ [][NextPlaytime]_vars

\* how many records of the list carry the label
CountOf(review_list, label) ==
    Cardinality({i \in 1..Len(review_list) : review_list[i] = label})

\* C12: analyze_theme_reviews counts every record once, as positive, negative
\* or (any other label) neutral, so that total_found is the sum of the three
\* counts; the two percentages are the shares of positive and of negative among
\* the positive and negative records only, rounded to two decimals (6 positive
\* and 4 negative give 60.0 and 40.0), and both are 0.0 when there is neither.
C12_ThemeCountsAndPercentages ==
    call.fn = "analyze_theme_reviews" =>
        LET pos == CountOf(call.arg, "Positive")
            neg == CountOf(call.arg, "Negative")
            ret == call.ret
        IN  /\ ret.positive_count = pos
            /\ ret.negative_count = neg
            /\ ret.neutral_count = Len(call.arg) - pos - neg
            /\ ret.total_found = ret.positive_count + ret.negative_count + ret.neutral_count
            /\ ret.total_found = Len(call.arg)
            /\ (pos + neg = 0) => (ret.positive_percent = 0 /\ ret.negative_percent = 0)
            /\ (pos + neg > 0) =>
                  /\ 2 * (ret.positive_percent * (pos + neg) - 10000 * pos) \in -(pos + neg)..(pos + neg)
                  /\ 2 * (ret.negative_percent * (pos + neg) - 10000 * neg) \in -(pos + neg)..(pos + neg)
            /\ (pos = 6 /\ neg = 4) => (ret.positive_percent = 6000 /\ ret.negative_percent = 4000)

\* a list with positive, negative and other records has been analysed
C12_Witness ==
    /\ call.fn = "analyze_theme_reviews"
    /\ CountOf(call.arg, "Positive") = 1
    /\ CountOf(call.arg, "Negative") = 1
    /\ Len(call.arg) = 3
    /\ call.ret.positive_percent = 5000

\* the positive playtimes of the list from lo up to but not hi
InBucket(playtime_hours, lo, hi) ==
    Cardinality({i \in 1..Len(playtime_hours) :
                    playtime_hours[i] > 0 /\ lo <= playtime_hours[i] /\ playtime_hours[i] < hi})

\* C13: calculate_playtime_distribution always returns, with seven counts:
\* the positive playtimes under 1 h, from 1 h to under 5 h, 5 to 10, 10 to 20,
\* 20 to 50, 50 to 100 and from 100 h on, which add up to the number of records
\* with a positive playtime (all zero when there is none).
C13_HistogramOfSevenBuckets ==
    call.fn = "calculate_playtime_distribution" =>
        /\ ~call.ret.error
        /\ Len(call.ret.histogram_buckets) = 7
        /\ \A i \in 1..6 :
               call.ret.histogram_buckets[i] =
                   InBucket(call.arg, HISTOGRAM_BINS[i], HISTOGRAM_BINS[i + 1])
        /\ call.ret.histogram_buckets[7] =
               Cardinality({i \in 1..Len(call.arg) : call.arg[i] >= HISTOGRAM_BINS[7]})

\* C13, the part that holds: a call that returns, returns these seven counts
C13_HistogramWhenReturned ==
    (call.fn = "calculate_playtime_distribution" /\ ~call.ret.error) =>
        /\ Len(call.ret.histogram_buckets) = 7
        /\ \A i \in 1..6 :
               call.ret.histogram_buckets[i] =
                   InBucket(call.arg, HISTOGRAM_BINS[i], HISTOGRAM_BINS[i + 1])
        /\ call.ret.histogram_buckets[7] =
               Cardinality({i \in 1..Len(call.arg) : call.arg[i] >= HISTOGRAM_BINS[7]})
        /\ call.ret.histogram_buckets[1] + call.ret.histogram_buckets[2]
             + call.ret.histogram_buckets[3] + call.ret.histogram_buckets[4]
             + call.ret.histogram_buckets[5] + call.ret.histogram_buckets[6]
             + call.ret.histogram_buckets[7]
           = Cardinality({i \in 1..Len(call.arg) : call.arg[i] > 0})

\* C13, what the error does to /analyze: no request over records with a
\* playtime ends as an HTTP 500
C13_AnalyzeNeverRaises == resp.status # 500


-----------------------------------------------------------------------------
\* The pages of /reviews: one app analysed with every count, read with every
\* hint, offset, limit and pair of flags

PagedAnalyzeStep == \E req \in PlaytimeAnalyzeRequests : Analyze(req, NoFail)

Pagings == [offset : {-1, 1, MaxSrc}, limit : {0, 1, PAGE_LIMIT_MAX + 1},
            themed_only : BOOLEAN, fallback_to_all_if_none : BOOLEAN]

PagedRequests ==
    {WithPaging([app_id |-> <<"7">>, total_count |-> h, filter |-> "recent", language |-> <<>>], g) :
        h \in Hints, g \in Pagings}

PagedReviewsStep == \E req \in PagedRequests : get_paginated_reviews(req)

InitRead == InitWith(ConcUpstreams)

ExportFlags == [offset : {0}, limit : {PAGE_LIMIT_MAX},
                themed_only : BOOLEAN, fallback_to_all_if_none : BOOLEAN]

FlaggedExportRequests ==
    {WithPaging([app_id |-> <<"7">>, total_count |-> h, filter |-> "recent", language |-> <<>>], g) :
        h \in Hints, g \in ExportFlags}

FlaggedExportStep == \E req \in FlaggedExportRequests : export_reviews_csv(req)

NextRead == PagedAnalyzeStep \/ PagedReviewsStep \/ FlaggedExportStep

SpecRead == InitRead /\ [][NextRead]_vars

\* the used prefix items[:total_count] of an entry under a count hint
UsedPrefix(e, hint) ==
    LET wanted == IF hint = NoneInt \/ hint <= 0 THEN e.effective_target_count ELSE hint
        capped == IF wanted > MAX_REVIEW_COUNT THEN MAX_REVIEW_COUNT
                  ELSE IF wanted < MIN_REVIEW_COUNT THEN MIN_REVIEW_COUNT ELSE wanted
    IN  [i \in 1..(IF capped < Len(e.all_reviews) THEN capped ELSE Len(e.all_reviews)) |->
            e.all_reviews[i]]

C14_FallbackWitness ==
    /\ resp.op = "reviews" /\ resp.status = 200
    /\ resp.mode = "all_fallback" /\ resp.rows = <<1>>


-----------------------------------------------------------------------------
\* One call of _steam_get_with_retry, attempt by attempt

RetryCall == "_steam_get_with_retry"

RetryBeginStep ==
    /\ IF call.fn = RetryCall THEN call.ret.done ELSE TRUE
    /\ \E params \in {StartCursor, CursorAt(STEAM_REVIEWS_PER_PAGE)} :
           call' = [fn |-> RetryCall, arg |-> params, ret |-> RetryStart(params)]
    /\ UNCHANGED <<cache, heap, now, up, resp, procs>>

RetryAttemptStep ==
    /\ call.fn = RetryCall /\ ~call.ret.done
    /\ \E answer \in Answers :
           call' = [call EXCEPT !.ret = RetryAttempt(@, call.arg, answer)]
    /\ UNCHANGED <<cache, heap, now, up, resp, procs>>

InitRetry == InitWith(ConcUpstreams)

NextRetry == RetryBeginStep \/ RetryAttemptStep

SpecRetry == InitRetry /\ [][NextRetry]_vars

IsThrottled(answer) == answer \in {"429", "503"}

\* the failure plan of a top-up whose first page request is throttled throughout
ThrottledPlan == [failAt |-> 1, kind |-> "throttled"]

\* C19: a call of _steam_get_with_retry sends at most STEAM_RETRY_MAX requests,
\* all with the params it was called with; after the attempt number i, when
\* its answer is a throttling status, it waits 2^(i-1) seconds, 12 at most;
\* when all STEAM_RETRY_MAX attempts are throttled it returns None, and the
\* top-up that made the call ends with that page as failed.
C19_RetryBudgetAndBackoff ==
    call.fn = RetryCall =>
        LET st == call.ret
        IN  /\ Len(st.sent) <= STEAM_RETRY_MAX
            /\ \A i \in 1..Len(st.sent) : st.sent[i] = call.arg
            /\ \A i \in 1..Len(st.answers) :
                   IsThrottled(st.answers[i]) =>
                       /\ st.slept[i] = (IF 2^(i - 1) < 12 THEN 2^(i - 1) ELSE 12)
                       /\ st.slept[i] <= 12
            /\ (/\ Len(st.answers) = STEAM_RETRY_MAX
                /\ \A i \in 1..Len(st.answers) : IsThrottled(st.answers[i])) =>
                   /\ st.done /\ st.isNone
                   /\ Len(st.sent) = STEAM_RETRY_MAX
                   /\ FetchPage(up, ThrottledPlan, 1, call.arg).isNone
                   /\ \A n \in Counts :
                          LET x == TopUp(NewEntry(now, n), up, ThrottledPlan, n, now)
                          IN  /\ x.loc.failed /\ x.loc.brk
                              /\ x.loc.fetches = <<StartCursor>>
                              /\ x.e.all_reviews = <<>>

\* every attempt of a call was throttled: four requests, waits of 1, 2, 4 and 8
C19_Witness ==
    /\ call.fn = RetryCall /\ call.ret.done
    /\ call.ret.answers = <<"429", "503", "429", "503">>
    /\ call.ret.slept = <<1, 2, 4, 8>>
    /\ call.ret.isNone


-----------------------------------------------------------------------------
\* /analyze against an upstream that misbehaves: lists that end early, pages
\* that come with the cursor they were asked with, every failure plan

BudgetUpstreams == [len : 0..MaxSrc, total : {NoneInt, 1}, endCursor : {"next", "same", "0"},
                    hours : {<<>>}]

BudgetStep == \E req \in TopUpRequests, plan \in Plans : Analyze(req, plan)

InitBudget == InitWith(BudgetUpstreams)

NextBudget == BudgetStep

SpecBudget == InitBudget /\ [][NextBudget]_vars

\* C21: an /analyze request ends after at most ceil(need / page size) page
\* requests, need being the items the entry lacks of the requested count and
\* at most MAX_REVIEW_COUNT, and each page request takes between one and
\* STEAM_RETRY_MAX HTTP requests, whatever the upstream does.
C21_FetchBudget ==
    [][(IsRequestStep /\ resp'.op = "analyze" /\ resp'.status # 400) =>
        LET held == IF resp'.reused THEN Len(heap[resp'.eid].all_reviews) ELSE 0
            need == IF resp'.count > held THEN resp'.count - held ELSE 0
        IN  /\ need <= MAX_REVIEW_COUNT
            /\ Len(resp'.fetches) <=
                   (need + STEAM_REVIEWS_PER_PAGE - 1) \div STEAM_REVIEWS_PER_PAGE
            /\ Len(resp'.attempts) = Len(resp'.fetches)
            /\ \A i \in 1..Len(resp'.attempts) :
                   resp'.attempts[i] >= 1 /\ resp'.attempts[i] <= STEAM_RETRY_MAX]_vars

\* a request has used its whole page budget, the last page request failing
\* on every one of its attempts
C21_Witness ==
    /\ resp.op = "analyze" /\ resp.failed
    /\ Len(resp.fetches) = 2
    /\ resp.attempts = <<1, STEAM_RETRY_MAX>>

\* a request has stopped at a cursor it had already asked with
C21_SameCursorWitness ==
    /\ resp.op = "analyze" /\ ~resp.failed
    /\ up.endCursor = "same"
    /\ Len(resp.fetches) = 1
    /\ Len(heap[resp.eid].all_reviews) < heap[resp.eid].effective_target_count
    /\ heap[resp.eid].cursor = StartCursor
    /\ heap[resp.eid].all_reviews # <<>>


-----------------------------------------------------------------------------
\* Properties of overlapping requests (SpecConc)

\* C22: while a request is topping up an entry it has loaded from the cache,
\* no step (no purge pass of another request) takes a key of that entry out
\* of the cache.
C22_PurgeSparesEntryInTopUp ==
    [][\A p \in Procs :
          (procs[p].pc = "loop" /\ procs[p].r0.reused) =>
              \A i \in 1..Len(cache) :
                  cache[i].e = procs[p].eid =>
                      CacheGet(cache', cache[i].k) = procs[p].eid]_vars


\* C23: a request that loads an entry another request is topping up sees no
\* review of the top-up in progress under the cursor from before it: every
\* review of the entry it loads lies on a page before the entry's cursor.
C23_TopUpPublishedAtOnce ==
    [][\A q \in Procs :
          (/\ procs[q].pc = "idle" /\ procs'[q].pc # "idle"
           /\ procs'[q].r0.reused
           /\ \E p \in Procs \ {q} :
                  /\ procs[p].pc \in {"loop", "post"}
                  /\ procs[p].loc.topup
                  /\ procs[p].eid = procs'[q].eid
           /\ heap[procs'[q].eid].cursor # NoCursor) =>
              \A i \in 1..Len(heap[procs'[q].eid].all_reviews) :
                  heap[procs'[q].eid].all_reviews[i] <= OffsetOf(heap[procs'[q].eid].cursor)]_vars

\* C25: a top-up appends no review once the entry holds the requested count,
\* an /analyze leaves its entry with at most the larger of what it held and
\* the clamped requested count, and never with more than MAX_REVIEW_COUNT items
C25_ItemsWithinRequestedCount ==
    [][(/\ IsRequestStep
        /\ resp'.op = "analyze" /\ resp'.status # 400
        /\ resp'.eid \in DOMAIN heap') =>
            LET held  == IF resp'.reused THEN Len(heap[resp'.eid].all_reviews) ELSE 0
                after == Len(heap'[resp'.eid].all_reviews)
            IN  /\ after <= MAX_REVIEW_COUNT
                /\ after <= Max(held, resp'.count)
                /\ held >= resp'.count => after = held]_vars

\* C25: no entry ever holds more than MAX_REVIEW_COUNT items
C25_NeverAboveCap ==
    \A id \in DOMAIN heap : Len(heap[id].all_reviews) <= MAX_REVIEW_COUNT

\* a top-up stopped in the middle of a page of a longer list, at the count
C25_Witness ==
    /\ resp.op = "analyze" /\ resp.status = 200 /\ resp.reused
    /\ resp.fetches # <<>>
    /\ resp.eid \in DOMAIN heap
    /\ Len(heap[resp.eid].all_reviews) = resp.count
    /\ resp.count % STEAM_REVIEWS_PER_PAGE # 0
    /\ up.len > resp.count


\* C28: in every state reached after a request has completed the cache holds
\* at most CACHE_MAX_ITEMS key-to-entry mappings
C28_CacheWithinMaxSize == Len(cache) <= CACHE_MAX_ITEMS


\* the reviews a client gathers that pages /reviews through from the offset,
\* limit at a time, up to the first empty page
RECURSIVE PagedThrough(_, _, _, _)
PagedThrough(e, req, offset, limit) ==
    LET page == ReadBody("reviews", NoResp, e, [req EXCEPT !.offset = offset, !.limit = limit])
    IN  IF page.rows = <<>> THEN <<>>
        ELSE page.rows \o PagedThrough(e, req, offset + page.limit, limit)

\* C27: for the same cache state and the same app_id, filter, language,
\* total_count hint, themed_only and fallback_to_all_if_none, /export writes
\* one row for each review, in the same order and with the same selection
\* mode, that /reviews returns when paged through from offset 0, whatever
\* the page size
C27_ExportIsReviewsPagedThrough ==
    (resp.op = "export" /\ resp.status = 200) =>
        \A limit \in 1..PAGE_LIMIT_MAX :
            LET req == [total_count |-> resp.count,
                        themed_only |-> resp.paging.themed_only,
                        fallback_to_all_if_none |-> resp.paging.fallback_to_all_if_none,
                        offset |-> 0, limit |-> limit]
                first == ReadBody("reviews", NoResp, heap[resp.eid], req)
                paged == PagedThrough(heap[resp.eid], req, 0, limit)
            IN  /\ resp.mode = first.mode
                /\ Len(resp.rows) = Len(paged)
                /\ \A i \in 1..Len(paged) :
                       /\ resp.rows[i].review_text = paged[i]
                       /\ resp.rows[i].theme_tags = IF paged[i] % 2 = 0 THEN "time" ELSE ""

\* an export of more rows than one page of /reviews holds
C27_Witness ==
    /\ resp.op = "export" /\ resp.status = 200
    /\ Len(resp.rows) > PAGE_LIMIT_MAX

\* an export that fell back to all the reviews
C27_FallbackWitness ==
    /\ resp.op = "export" /\ resp.status = 200
    /\ resp.mode = "all_fallback" /\ resp.rows # <<>>

\* an export of the themed reviews with the fallback turned off
C27_ThemedWitness ==
    /\ resp.op = "export" /\ resp.status = 200
    /\ resp.mode = "themed" /\ ~resp.paging.fallback_to_all_if_none

-----------------------------------------------------------------------------
\* Cache keys of app ids that hold the separator: the server takes any
\* non-blank string as app_id.  An app_id is the sequence of its parts between
\* underscores, so <<"7", "3">> is the string "7_3".
KeyApps == {<<"7">>, <<"7", "3">>}

KeyAnalyzeRequests ==
    [app_id : KeyApps, review_count : Counts, filter : {"recent"}, language : {<<>>}]

KeyReadRequests ==
    {WithPaging([app_id |-> a, total_count |-> NoneInt, filter |-> "recent", language |-> <<>>], g) :
        a \in KeyApps, g \in DefaultPaging}

KeyAnalyzeStep == \E req \in KeyAnalyzeRequests : Analyze(req, NoFail)

KeyReviewsStep == \E req \in KeyReadRequests : get_paginated_reviews(req)

InitKeys == InitWith(CacheUpstreams)

NextKeys == KeyAnalyzeStep \/ KeyReviewsStep

SpecKeys == InitKeys /\ [][NextKeys]_vars

\* C26: two requests whose (app_id, filter, language) differ never resolve to
\* the same entry: a request answered from the entry of the request before it
\* has the same app_id, filter and language.
C26_KeysInjective ==
    [][(/\ IsRequestStep
        /\ resp.status = 200 /\ resp'.status = 200
        /\ resp'.reused /\ resp'.eid = resp.eid) => SameSubject(resp, resp')]_vars

\* C24: an /analyze on one triple leaves the items, the cursor, the source
\* total and the effective target of another triple's entry as they were
\* (the entry the request before it answered from, still under its primary key)
C24_OtherTripleUntouched ==
    [][(/\ IsRequestStep
        /\ resp.status = 200 /\ resp'.op = "analyze"
        /\ ~SameSubject(resp, resp')
        /\ resp.eid \in DOMAIN heap
        /\ CacheGet(cache, CACHE_KEY_V2(resp.app_id, resp.review_filter, resp.language))
               = resp.eid
        /\ CacheGet(cache', CACHE_KEY_V2(resp.app_id, resp.review_filter, resp.language))
               = resp.eid) =>
            /\ heap'[resp.eid].all_reviews = heap[resp.eid].all_reviews
            /\ heap'[resp.eid].cursor = heap[resp.eid].cursor
            /\ heap'[resp.eid].steam_total_reviews = heap[resp.eid].steam_total_reviews
            /\ heap'[resp.eid].effective_target_count
                   = heap[resp.eid].effective_target_count]_vars

====
